---- MODULE Spec2Model ----
(***************************************************************************)
(* Model of the CSV utilities of the repository:                           *)
(*   find_text_markers.py  - strip_markers and the marker scan (main)      *)
(*   filter_csv_by_ids.py  - load_ids and the ID filter (main)             *)
(* A Python str is a sequence of one-character strings; the em-dash        *)
(* U+2014 is the element EmDash.  Offsets are Python's: 0-based, slices    *)
(* are half-open.                                                          *)
(***************************************************************************)
EXTENDS Integers, Sequences, FiniteSets, TLC

VARIABLES
    tool,               \* which program runs: "strip", "scan" or "filter"
    pc,                 \* position of the running program
    arg, ret, calls,    \* strip_markers: argument, returned value, calls made
    csv,                \* the input CSV file: [sep, header, lines]
    args,               \* parsed command line
    idlines,            \* filter: the lines of the ids file
    pos,                \* number of physical lines the reader has consumed
    total, matched, matched_ids, all_ids, matched_user_ids, all_user_ids,
    freq, ratio,        \* scan: the derived statistics
    ids_set, total_rows, filtered_rows, sep_line,   \* filter: locals of main
    files,              \* files opened for writing: path -> lines written
    console             \* lines printed

vars == <<tool, pc, arg, ret, calls, csv, args, idlines, pos, total, matched,
          matched_ids, all_ids, matched_user_ids, all_user_ids, freq, ratio,
          ids_set, total_rows, filtered_rows, sep_line, files, console>>

stripVars == <<arg, ret, calls>>
scanVars == <<total, matched, matched_ids, all_ids, matched_user_ids,
              all_user_ids, freq, ratio>>
filterVars == <<ids_set, total_rows, filtered_rows, sep_line>>

\* ------------------------------------------------------------------ bounds
MaxTokens == 3          \* strip_markers inputs: at most this many tokens
MaxCalls == 2           \* strip_markers is applied at most this many times
MaxRows == 3            \* scan: physical lines after the header of the input CSV
MaxFilterRows == 2      \* filter: physical lines after the header of the input CSV
MaxIdLines == 2         \* lines of the ids file

\* ------------------------------------------------------- characters, str
None == <<"None">>      \* Python's None (no str has a 4-character element)
EmDash == "u2014"

IsSpace(c) == c \in {" ", "\t", "\n"}

Lower(c) ==
    CASE c = "B" -> "b" [] c = "E" -> "e" [] c = "G" -> "g" [] c = "I" -> "i"
      [] c = "N" -> "n" [] c = "D" -> "d" [] c = "T" -> "t" [] c = "X" -> "x"
      [] c = "S" -> "s" [] c = "P" -> "p"
      [] OTHER -> c

RECURSIVE LStrip(_)
LStrip(s) == IF s # <<>> /\ IsSpace(Head(s)) THEN LStrip(Tail(s)) ELSE s

RECURSIVE RStrip(_)
RStrip(s) ==
    IF s # <<>> /\ IsSpace(s[Len(s)]) THEN RStrip(SubSeq(s, 1, Len(s) - 1)) ELSE s

\* str.strip()
Strip(s) == RStrip(LStrip(s))

\* text[a:] and text[:b]
SliceFrom(s, a) == SubSeq(s, a + 1, Len(s))
SliceTo(s, b) == SubSeq(s, 1, b)

\* ------------------------------------------------------------- patterns
wBegin == <<"b", "e", "g", "i", "n">>
wBeginning == <<"b", "e", "g", "i", "n", "n", "i", "n", "g">>
wEnd == <<"e", "n", "d">>
wEnding == <<"e", "n", "d", "i", "n", "g">>
wText == <<"t", "e", "x", "t">>

\* the alternation of each pattern, in the order the regex tries it
BEGIN_PATTERN == <<wBegin, wBeginning>>
END_PATTERN == <<wEnd, wEnding>>

IGNORECASE == TRUE
CASESENSITIVE == FALSE

\* one pattern character against one text character under the flags
CharEq(c, p, ic) == IF ic THEN Lower(c) = Lower(p) ELSE c = p

\* the literal w matches at offset k
LitAt(s, k, w, ic) ==
    /\ k + Len(w) <= Len(s)
    /\ \A j \in 1..Len(w) : CharEq(s[k + j], w[j], ic)

\* greedy runs: [\s_]*, \s*, —*  from offset k; the offset after the run
RECURSIVE SkipSep(_, _)
SkipSep(s, k) ==
    IF k < Len(s) /\ (IsSpace(s[k + 1]) \/ s[k + 1] = "_") THEN SkipSep(s, k + 1) ELSE k

RECURSIVE SkipSpace(_, _)
SkipSpace(s, k) == IF k < Len(s) /\ IsSpace(s[k + 1]) THEN SkipSpace(s, k + 1) ELSE k

RECURSIVE SkipDash(_, _)
SkipDash(s, k) == IF k < Len(s) /\ s[k + 1] = EmDash THEN SkipDash(s, k + 1) ELSE k

\* w [\s_]+ text \s* (?:—+)?  anchored at offset k: the end offset, or -1.
\* "text" cannot start inside a [\s_] run and the tail always matches, so the
\* greedy run is the only way the regex engine can match from k with w.
WordMatchEnd(s, k, w, ic) ==
    IF ~LitAt(s, k, w, ic) THEN -1
    ELSE LET k1 == k + Len(w)
             k2 == SkipSep(s, k1)
         IN  IF k2 > k1 /\ LitAt(s, k2, wText, ic)
             THEN SkipDash(s, SkipSpace(s, k2 + Len(wText)))
             ELSE -1

\* (?:w1|w2)... anchored at k: the first alternative that matches decides
MatchEnd(s, k, pat, ic) ==
    IF WordMatchEnd(s, k, pat[1], ic) >= 0 THEN WordMatchEnd(s, k, pat[1], ic)
    ELSE WordMatchEnd(s, k, pat[2], ic)

NoMatch == [start |-> -1, end |-> -1]

\* re.search(pattern, s, flags): the leftmost match, or NoMatch
Search(pat, s, ic) ==
    LET hits == {k \in 0..(Len(s) - 1) : MatchEnd(s, k, pat, ic) >= 0}
    IN  IF hits = {} THEN NoMatch
        ELSE LET a == CHOOSE k \in hits : \A h \in hits : k <= h
             IN  [start |-> a, end |-> MatchEnd(s, a, pat, ic)]

Found(m) == m.start >= 0

\* ---------------------------------------------------------- strip_markers
\* the cut placed at the start of the begin match: the marker survives
BeginCutKeepsMarker(text, begin_match) ==
    IF Found(begin_match) THEN SliceFrom(text, begin_match.start) ELSE text

\* lines 52-53: cut at the end of the begin match
BeginCut(text, begin_match) ==
    IF Found(begin_match) THEN SliceFrom(text, begin_match.end) ELSE text

\* the cut placed at the end of the end match: the marker survives
EndCutAfterMarker(text, end_match) ==
    IF Found(end_match)
    THEN LET again == Search(END_PATTERN, text, IGNORECASE)
         IN  IF Found(again) THEN SliceTo(text, again.end) ELSE text
    ELSE text

\* no second search: the offset found before the begin cut is reused
EndCutStale(text, end_match) ==
    IF Found(end_match)
    THEN SliceTo(text, IF end_match.start < Len(text) THEN end_match.start ELSE Len(text))
    ELSE text

\* lines 56-60: re-search the end marker in the remainder and cut at its start
EndCut(text, end_match) ==
    IF Found(end_match)
    THEN LET again == Search(END_PATTERN, text, IGNORECASE)
         IN  IF Found(again) THEN SliceTo(text, again.start) ELSE text
    ELSE text

strip_markers(t) ==
    IF t = None THEN t
    ELSE LET text == Strip(t)
         IN  IF text = <<>> THEN text
             ELSE LET begin_match == Search(BEGIN_PATTERN, text, IGNORECASE)
                      end_match == Search(END_PATTERN, text, IGNORECASE)
                  IN  Strip(EndCut(BeginCut(text, begin_match), end_match))

\* ------------------------------------------- strip_markers: inputs, steps
\* Inputs are concatenations of at most MaxTokens tokens: whole markers in
\* several spellings, marker fragments, separators, dashes and plain text.
Tokens ==
    { wBegin \o <<" ">> \o wText,
      <<"B", "E", "G", "I", "N", "N", "I", "N", "G", "_", "T", "E", "X", "T", " ", EmDash>>,
      wEnd \o <<" ">> \o wText,
      <<"E", "n", "d", "i", "n", "g", "_", "\n", "T", "e", "x", "t", EmDash, EmDash>>,
      wBegin, wEnd, wText, <<" ">>, <<"_">>, <<EmDash>>, <<"h">> }

RECURSIVE Concat(_)
Concat(ts) == IF ts = <<>> THEN <<>> ELSE Head(ts) \o Concat(Tail(ts))

StripInputs ==
    {None} \cup {Concat(ts) : ts \in UNION {[1..n -> Tokens] : n \in 0..MaxTokens}}

\* values the variables of the programs that do not run keep
NoCsv == [sep |-> <<>>, header |-> <<>>, lines |-> <<>>]
NoPath == ""            \* an option that was not given (None and "" are both falsy)
NoArgs == [case_sensitive |-> FALSE, ids_output |-> NoPath]
NoFiles == [p \in {} |-> <<>>]
NoRatio == [num |-> 0, den |-> 1]

ScanIdle ==
    /\ total = 0 /\ matched = 0 /\ matched_ids = <<>> /\ all_ids = <<>>
    /\ matched_user_ids = {} /\ all_user_ids = {}
    /\ freq = NoRatio /\ ratio = NoRatio

FilterIdle ==
    /\ ids_set = {} /\ total_rows = 0 /\ filtered_rows = 0 /\ sep_line = None

StripIdle == arg = None /\ ret = None /\ calls = 0

NoIO == csv = NoCsv /\ args = NoArgs /\ idlines = <<>> /\ pos = 0
        /\ files = NoFiles /\ console = <<>>

InitStrip ==
    /\ tool = "strip" /\ pc = "ready"
    /\ arg \in StripInputs /\ ret = None /\ calls = 0
    /\ NoIO /\ ScanIdle /\ FilterIdle

\* a caller applies strip_markers to arg
Call ==
    /\ tool = "strip" /\ pc = "ready" /\ calls < MaxCalls
    /\ ret' = strip_markers(arg)
    /\ calls' = calls + 1
    /\ pc' = "returned"
    /\ UNCHANGED <<tool, arg, csv, args, idlines, pos, files, console>>
    /\ UNCHANGED scanVars /\ UNCHANGED filterVars

\* the caller passes the returned value to the next call
Feed ==
    /\ tool = "strip" /\ pc = "returned" /\ calls < MaxCalls
    /\ arg' = ret
    /\ pc' = "ready"
    /\ UNCHANGED <<tool, ret, calls, csv, args, idlines, pos, files, console>>
    /\ UNCHANGED scanVars /\ UNCHANGED filterVars

NextStrip == Call \/ Feed

SpecStrip == InitStrip /\ [][NextStrip]_vars

\* ------------------------------------------------------ the CSV collaborator
\* A file is an optional first line csv.sep (<<>> when the file has none), the
\* header row csv.header (<<>> when the file has no header row) and the
\* physical lines after it, each the list of its cells; <<>> is an empty line.
HeaderLine(header) == header        \* no field name is a single character

\* f.readline() on the freshly opened file
FirstLine(c) == IF c.sep # <<>> THEN c.sep ELSE HeaderLine(c.header)

\* first_line.lower().startswith("sep=")
IsSepLine(first_line) == LitAt(first_line, 0, <<"s", "e", "p", "=">>, IGNORECASE)

\* csv.DictReader: the row built from the cells of one non-empty line:
\* the header's fields (None where the line is short) and, under the key
\* None, the list of the cells beyond the header (absent when there are none).
DictRow(fieldnames, cells) ==
    [vals |-> [i \in 1..Len(fieldnames) |->
                  IF i <= Len(cells) THEN cells[i] ELSE None],
     names |-> fieldnames,
     rest |-> IF Len(cells) > Len(fieldnames)
              THEN SubSeq(cells, Len(fieldnames) + 1, Len(cells)) ELSE <<>>]

\* row.get(key): the value of the last field of that name, None if there is none
Get(row, key) ==
    LET at == {i \in 1..Len(row.names) : row.names[i] = key}
    IN  IF at = {} THEN None
        ELSE row.vals[CHOOSE i \in at : \A j \in at : j <= i]

\* (x or "")
OrEmpty(v) == IF v = None THEN <<>> ELSE v

\* all((value is None) or (str(value).strip() == "") for value in row.values())
\* str() of the list under the key None is never blank
AllBlank(row) ==
    /\ row.rest = <<>>
    /\ \A i \in 1..Len(row.names) : row.vals[i] = None \/ Strip(row.vals[i]) = <<>>

\* ----------------------------------------------------------- marker scan
RowUserId(row) == Strip(OrEmpty(Get(row, "user_id_id")))
RowId(row) == Strip(OrEmpty(Get(row, "id")))
RowText(row) == OrEmpty(Get(row, "output_text"))

\* line 90: flags = 0 if args.case_sensitive else re.IGNORECASE
Flags(a) == IF a.case_sensitive THEN CASESENSITIVE ELSE IGNORECASE

\* line 141: begin_re.search(output_text) or end_re.search(output_text)
HasMarker(output_text, flags) ==
    \/ Found(Search(BEGIN_PATTERN, output_text, flags))
    \/ Found(Search(END_PATTERN, output_text, flags))

\* the quotient taken the wrong way round
FrequencyInverted(m, t) ==
    IF m # 0 THEN [num |-> t * 100, den |-> m] ELSE [num |-> 0, den |-> 1]

\* line 148, as the exact quotient num/den
Frequency(m, t) == IF t # 0 THEN [num |-> m * 100, den |-> t] ELSE [num |-> 0, den |-> 1]

\* line 165
UserRatio(mu, au) ==
    IF au # {} THEN [num |-> Cardinality(mu), den |-> Cardinality(au)]
    ELSE [num |-> 0, den |-> 1]

\* the option ignored
MatchedIdsPathFixed(a) == "matched_ids_fixed.txt"

\* line 151
MatchedIdsPath(a) ==
    IF a.ids_output # NoPath THEN a.ids_output ELSE "matched_ids_fixed.txt"

\* open(path, "w") and the lines written before it is closed
WriteFile(fs, path, content) == (path :> content) @@ fs

Summary(t, m, mu, r, f) ==
    << [key |-> "total_rows", val |-> t],
       [key |-> "matched_rows", val |-> m],
       [key |-> "unique_user_ids", val |-> Cardinality(mu)],
       [key |-> "unique_user_ratio", val |-> r],
       [key |-> "frequency_percent", val |-> f] >>

\* lines 101-121: open the input, skip a sep= line, read the header
ScanOpen ==
    /\ tool = "scan" /\ pc = "start"
    /\ pc' = IF csv.header = <<>> THEN "aborted" ELSE "rows"
    /\ UNCHANGED <<tool, csv, args, idlines, pos, files, console>>
    /\ UNCHANGED stripVars /\ UNCHANGED scanVars /\ UNCHANGED filterVars

\* lines 123-146: the reader consumes one line; an empty line yields no row
ScanRow ==
    /\ tool = "scan" /\ pc = "rows" /\ pos < Len(csv.lines)
    /\ pos' = pos + 1
    /\ LET cells == csv.lines[pos + 1]
           row == DictRow(csv.header, cells)
           user_id == RowUserId(row)
           rid == RowId(row)
           hit == HasMarker(RowText(row), Flags(args))
       IN  IF cells = <<>> \/ AllBlank(row)
           THEN UNCHANGED <<total, matched, matched_ids, all_ids,
                            matched_user_ids, all_user_ids>>
           ELSE /\ total' = total + 1
                /\ all_user_ids' =
                     IF user_id # <<>> THEN all_user_ids \cup {user_id} ELSE all_user_ids
                /\ all_ids' = IF rid # <<>> THEN Append(all_ids, rid) ELSE all_ids
                /\ matched' = IF hit THEN matched + 1 ELSE matched
                /\ matched_ids' =
                     IF hit /\ rid # <<>> THEN Append(matched_ids, rid) ELSE matched_ids
                /\ matched_user_ids' =
                     IF hit /\ user_id # <<>> THEN matched_user_ids \cup {user_id}
                     ELSE matched_user_ids
    /\ UNCHANGED <<tool, pc, csv, args, idlines, freq, ratio, files, console>>
    /\ UNCHANGED stripVars /\ UNCHANGED filterVars

\* lines 148-169: the statistics, the two identifier files, the summary
ScanFinish ==
    /\ tool = "scan" /\ pc = "rows" /\ pos = Len(csv.lines)
    /\ freq' = Frequency(matched, total)
    /\ ratio' = UserRatio(matched_user_ids, all_user_ids)
    /\ files' = WriteFile(WriteFile(files, MatchedIdsPath(args), matched_ids),
                          "all_ids.txt", all_ids)
    /\ console' = console \o Summary(total, matched, matched_user_ids, ratio', freq')
    /\ pc' = "done"
    /\ UNCHANGED <<tool, csv, args, idlines, pos, total, matched, matched_ids,
                   all_ids, matched_user_ids, all_user_ids>>
    /\ UNCHANGED stripVars /\ UNCHANGED filterVars

\* ---- the input files of the scan
Header3 == <<"id", "user_id_id", "output_text">>
SepLine == <<"S", "e", "p", "=", ";", "\n">>

tUpperBegin == <<"B", "E", "G", "I", "N", "_", "T", "E", "X", "T", " ", "h">>
tUpperEnd == <<"h", " ", "E", "N", "D", " ", "T", "E", "X", "T", " ", "h">>
tLowerBegin == wBegin \o <<" ">> \o wText \o <<" ", "X">>
tPlain == <<"n", "o">>

ScanLines ==
    { << <<"1">>, <<"a">>, tUpperBegin>>,
      << <<"2">>, <<"a">>, tPlain>>,
      << <<" ", "1", " ">>, <<>>, tLowerBegin>>,
      << <<>>, <<"b">>, tUpperEnd>>,
      << <<>>, <<" ">>, <<>> >>,
      <<>>,
      << <<"2">> >>,
      << <<>>, <<>>, <<" ">>, <<>> >> }

FilesOver(lineset, n) ==
    [sep : {<<>>, SepLine},
     header : {<<>>, Header3},
     lines : UNION {[1..k -> lineset] : k \in 0..n}]

InitScan ==
    /\ tool = "scan" /\ pc = "start"
    /\ csv \in FilesOver(ScanLines, MaxRows)
    /\ args \in [case_sensitive : BOOLEAN,
                 ids_output : {NoPath, "ids.txt", "all_ids.txt"}]
    /\ idlines = <<>> /\ pos = 0 /\ files = NoFiles /\ console = <<>>
    /\ StripIdle /\ ScanIdle /\ FilterIdle

NextScan == ScanOpen \/ ScanRow \/ ScanFinish

SpecScan == InitScan /\ [][NextScan]_vars

\* -------------------------------------------------------------- ID filter
\* lines 33-41: the stripped, non-empty lines of the ids file
load_ids(lns) == {Strip(lns[i]) : i \in 1..Len(lns)} \ {<<>>}

OutputPath == "filtered.csv"

SepOut(line) == [kind |-> "sep", text |-> line, names |-> <<>>, cells |-> <<>>]
HeaderOut(fieldnames) ==
    [kind |-> "header", text |-> <<>>, names |-> fieldnames, cells |-> <<>>]

\* csv.DictWriter.writerow: the row's value for each field in header order,
\* a None value written as the empty string
RowOut(row) ==
    [kind |-> "row", text |-> <<>>, names |-> <<>>,
     cells |-> [i \in 1..Len(row.names) |-> OrEmpty(row.vals[i])]]

\* csv.DictWriter (extrasaction="raise") rejects a row that has a key which is
\* not a field name: the key None that DictReader gives an over-long line
WriterRejects(row) == row.rest # <<>>

\* line 125
Wanted(row, ids) == RowId(row) \in ids

\* lines 59-62
FilterLoadIds ==
    /\ tool = "filter" /\ pc = "start"
    /\ ids_set' = load_ids(idlines)
    /\ console' = console \o << [key |-> "loading", val |-> 0],
                                [key |-> "loaded", val |-> Cardinality(ids_set')] >>
    /\ pc' = "loaded"
    /\ UNCHANGED <<tool, csv, args, idlines, pos, files,
                   total_rows, filtered_rows, sep_line>>
    /\ UNCHANGED stripVars /\ UNCHANGED scanVars

\* the output opened before the header is checked
FilterOpenEarly ==
    /\ tool = "filter" /\ pc = "loaded"
    /\ LET first_line == FirstLine(csv)
           kept == IF IsSepLine(first_line) THEN first_line ELSE None
       IN  /\ sep_line' = kept
           /\ files' = WriteFile(files, OutputPath,
                         (IF kept # None /\ kept # <<>>
                          THEN <<SepOut(kept)>> ELSE <<>>)
                         \o <<HeaderOut(csv.header)>>)
           /\ pc' = IF csv.header = <<>> THEN "aborted" ELSE "rows"
    /\ UNCHANGED <<tool, csv, args, idlines, pos, console,
                   ids_set, total_rows, filtered_rows>>
    /\ UNCHANGED stripVars /\ UNCHANGED scanVars

\* lines 81-112: open the input, keep a sep= line, read the header; then open
\* the output and write the sep= line and the header
FilterOpen ==
    /\ tool = "filter" /\ pc = "loaded"
    /\ LET first_line == FirstLine(csv)
           kept == IF IsSepLine(first_line) THEN first_line ELSE None
       IN  /\ sep_line' = kept
           /\ IF csv.header = <<>>
              THEN pc' = "aborted" /\ UNCHANGED files
              ELSE /\ pc' = "rows"
                   /\ files' = WriteFile(files, OutputPath,
                                 (IF kept # None /\ kept # <<>>
                                  THEN <<SepOut(kept)>> ELSE <<>>)
                                 \o <<HeaderOut(csv.header)>>)
    /\ UNCHANGED <<tool, csv, args, idlines, pos, console,
                   ids_set, total_rows, filtered_rows>>
    /\ UNCHANGED stripVars /\ UNCHANGED scanVars

\* lines 114-127: the reader consumes one line; an empty line yields no row
FilterRow ==
    /\ tool = "filter" /\ pc = "rows" /\ pos < Len(csv.lines)
    /\ pos' = pos + 1
    /\ LET cells == csv.lines[pos + 1]
           row == DictRow(csv.header, cells)
       IN  IF cells = <<>>
           THEN UNCHANGED <<pc, total_rows, filtered_rows, files>>
           ELSE /\ total_rows' = total_rows + 1
                /\ IF AllBlank(row) \/ ~Wanted(row, ids_set)
                   THEN UNCHANGED <<pc, filtered_rows, files>>
                   ELSE IF WriterRejects(row)
                   THEN pc' = "crashed" /\ UNCHANGED <<filtered_rows, files>>
                   ELSE /\ files' = WriteFile(files, OutputPath,
                                       Append(files[OutputPath], RowOut(row)))
                        /\ filtered_rows' = filtered_rows + 1
                        /\ UNCHANGED pc
    /\ UNCHANGED <<tool, csv, args, idlines, console, ids_set, sep_line>>
    /\ UNCHANGED stripVars /\ UNCHANGED scanVars

\* lines 129-133
FilterFinish ==
    /\ tool = "filter" /\ pc = "rows" /\ pos = Len(csv.lines)
    /\ console' = console \o << [key |-> "processed", val |-> total_rows],
                                [key |-> "filtered", val |-> filtered_rows],
                                [key |-> "saved", val |-> 0] >>
    /\ pc' = "done"
    /\ UNCHANGED <<tool, csv, args, idlines, pos, files,
                   ids_set, total_rows, filtered_rows, sep_line>>
    /\ UNCHANGED stripVars /\ UNCHANGED scanVars

\* ---- the input files of the filter
FilterLines ==
    { << <<"1">>, <<"a">>, tPlain>>,
      << <<" ", "2", "\t">>, <<>>, tLowerBegin>>,
      << <<>>, <<"b">>, tPlain>>,
      << <<>>, <<" ">>, <<>> >>,
      <<>>,
      << <<"2">> >>,
      << <<"2">>, <<"a">>, tPlain, <<"h">> >> }

IdLines == { <<"2", "\n">>, <<" ", "1", " ", "\n">>, <<"\n">> }

InitFilter ==
    /\ tool = "filter" /\ pc = "start"
    /\ csv \in FilesOver(FilterLines, MaxFilterRows)
    /\ args = NoArgs
    /\ idlines \in UNION {[1..k -> IdLines] : k \in 0..MaxIdLines}
    /\ pos = 0 /\ files = NoFiles /\ console = <<>>
    /\ StripIdle /\ ScanIdle /\ FilterIdle

NextFilter == FilterLoadIds \/ FilterOpen \/ FilterRow \/ FilterFinish

SpecFilter == InitFilter /\ [][NextFilter]_vars

\* both programs that read a CSV file
InitTools == InitScan \/ InitFilter
NextTools == NextScan \/ NextFilter
SpecTools == InitTools /\ [][NextTools]_vars

\* =================================================================== claims
HasBegin(t) == Found(Search(BEGIN_PATTERN, t, IGNORECASE))
HasEnd(t) == Found(Search(END_PATTERN, t, IGNORECASE))
Returned == tool = "strip" /\ pc = "returned" /\ arg # None

\* C1: strip_markers is idempotent: a second application to the value the
\* first one returned returns that value again.
C1_Idempotent == (Returned /\ calls = 2) => ret = arg

\* C3: for a text with a begin-marker and no end-marker, strip_markers returns
\* the trimmed suffix after the leftmost begin-marker span.
C3_BeginOnlySuffix ==
    (Returned /\ HasBegin(arg) /\ ~HasEnd(arg))
        => ret = Strip(SliceFrom(arg, Search(BEGIN_PATTERN, arg, IGNORECASE).end))

C3_Witness ==
    /\ Returned /\ HasBegin(arg) /\ ~HasEnd(arg)
    /\ Search(BEGIN_PATTERN, arg, IGNORECASE).start > 0
    /\ ret # <<>>

\* C4: for a text with an end-marker and no begin-marker, strip_markers
\* returns the trimmed prefix before the start of the leftmost end-marker.
C4_EndOnlyPrefix ==
    (Returned /\ HasEnd(arg) /\ ~HasBegin(arg))
        => ret = Strip(SliceTo(arg, Search(END_PATTERN, arg, IGNORECASE).start))

C4_Witness ==
    /\ Returned /\ HasEnd(arg) /\ ~HasBegin(arg)
    /\ Search(END_PATTERN, arg, IGNORECASE).end < Len(arg)
    /\ ret # <<>>

\* C10: the value strip_markers returns for a string contains no end-marker.
C10_NoEndMarkerLeft == Returned => ~HasEnd(ret)

C10_Witness ==
    /\ Returned /\ HasBegin(arg)
    /\ HasEnd(SliceFrom(Strip(arg), Search(BEGIN_PATTERN, Strip(arg), IGNORECASE).end))
    /\ ret # <<>>

\* ---- what the input file says, read without the csv collaborator
ScanDone == tool = "scan" /\ pc = "done"

\* the cell of a line in the column of the given name (empty when there is none)
CellOf(line, name) ==
    LET at == {i \in 1..Len(csv.header) : csv.header[i] = name}
        col == CHOOSE i \in at : \A j \in at : j <= i
    IN  IF at = {} \/ col > Len(line) THEN <<>> ELSE line[col]

\* a line all of whose cells are empty after trimming (an empty line is one)
EntirelyBlank(line) == \A i \in 1..Len(line) : Strip(line[i]) = <<>>

LineMatches(line) ==
    ~EntirelyBlank(line) /\ HasMarker(CellOf(line, "output_text"), Flags(args))

CountNotBlank(ls) == Cardinality({i \in 1..Len(ls) : ~EntirelyBlank(ls[i])})
CountMatching(ls) == Cardinality({i \in 1..Len(ls) : LineMatches(ls[i])})

RECURSIVE MatchedIdsOf(_)
MatchedIdsOf(ls) ==
    IF ls = <<>> THEN <<>>
    ELSE (IF LineMatches(Head(ls)) /\ Strip(CellOf(Head(ls), "id")) # <<>>
          THEN <<Strip(CellOf(Head(ls), "id"))>> ELSE <<>>) \o MatchedIdsOf(Tail(ls))

MatchedUsersOf(ls) ==
    {Strip(CellOf(ls[i], "user_id_id")) : i \in {j \in 1..Len(ls) : LineMatches(ls[j])}}
        \ {<<>>}

Printed(key) == console[CHOOSE i \in 1..Len(console) : console[i].key = key]

\* C2: in case-sensitive mode a row whose output_text is the lowercase
\* "begin text X" is not counted as a match; in the default mode it is.
C2_CaseSensitiveRejectsLowercase ==
    (ScanDone /\ csv.lines # <<>>
       /\ \A i \in 1..Len(csv.lines) : csv.lines[i] = << <<" ", "1", " ">>, <<>>, tLowerBegin>>)
        => matched = (IF args.case_sensitive THEN 0 ELSE Len(csv.lines))

\* C5: throughout the scan matched <= total and the matched identifiers are
\* among the overall identifiers; at the end frequency_percent is in [0, 100]
\* and unique_user_ratio in [0, 1], both 0 when their denominator is 0.
C5_CountsAndRatiosInRange ==
    tool = "scan" =>
        /\ 0 <= matched /\ matched <= total
        /\ matched_user_ids \subseteq all_user_ids
        /\ {matched_ids[i] : i \in 1..Len(matched_ids)}
               \subseteq {all_ids[i] : i \in 1..Len(all_ids)}
        /\ pc = "done" =>
              /\ freq.den > 0 /\ 0 <= freq.num /\ freq.num <= 100 * freq.den
              /\ ratio.den > 0 /\ 0 <= ratio.num /\ ratio.num <= ratio.den
              /\ total = 0 => freq.num = 0
              /\ all_user_ids = {} => ratio.num = 0
              /\ Printed("frequency_percent").val = freq
              /\ Printed("unique_user_ratio").val = ratio

C5_Witness ==
    /\ ScanDone /\ 0 < matched /\ matched < total
    /\ matched_user_ids # {} /\ matched_user_ids # all_user_ids

\* C6: after the scan total_rows is the number of rows not entirely blank,
\* matched_rows the number of those with a marker in output_text, the matched
\* list the trimmed non-empty ids of the matched rows in input order, and
\* unique_user_ids the number of distinct trimmed non-empty user ids of the
\* matched rows.
C6_ScanCounts ==
    ScanDone =>
        /\ total = CountNotBlank(csv.lines)
        /\ matched = CountMatching(csv.lines)
        /\ matched_ids = MatchedIdsOf(csv.lines)
        /\ Printed("unique_user_ids").val = Cardinality(MatchedUsersOf(csv.lines))

\* C9 as stated: with no identifier output path the matched identifiers are
\* echoed to the console and no identifier file is written.
C9_EchoWhenNoPath ==
    (ScanDone /\ args.ids_output = NoPath) =>
        /\ Cardinality({i \in 1..Len(console) : console[i].key = "matched_id"})
               = Len(matched_ids)
        /\ "matched_ids_fixed.txt" \notin DOMAIN files

\* C9 as amended: the matched identifiers are never echoed; they are written
\* to the given path, or to matched_ids_fixed.txt when no path is given, and
\* stay there unless that path is all_ids.txt, which then holds all ids.
C9_IdsFileAlwaysWritten ==
    ScanDone =>
        LET path == IF args.ids_output = NoPath THEN "matched_ids_fixed.txt"
                    ELSE args.ids_output
        IN  /\ DOMAIN files = {path, "all_ids.txt"}
            /\ path # "all_ids.txt" => files[path] = matched_ids
            /\ files["all_ids.txt"] = all_ids
            /\ \A i \in 1..Len(console) : console[i].key # "matched_id"
            /\ Len(console) = 5

C9_Witness ==
    /\ ScanDone /\ args.ids_output = NoPath /\ Len(matched_ids) >= 2
    /\ Len(all_ids) > Len(matched_ids)

\* ---- the filter
RECURSIVE WantedRowsOf(_)
WantedRowsOf(ls) ==
    IF ls = <<>> THEN <<>>
    ELSE LET l == Head(ls)
         IN  (IF Strip(CellOf(l, "id")) \in load_ids(idlines)
              THEN << [kind |-> "row", text |-> <<>>, names |-> <<>>,
                       cells |-> [i \in 1..Len(csv.header) |->
                                     IF i <= Len(l) THEN l[i] ELSE <<>>]] >>
              ELSE <<>>) \o WantedRowsOf(Tail(ls))

\* C7: the filter writes, after the sep= line (if any) and the header, exactly
\* the rows whose trimmed id is wanted, in input order, and no row is an error.
C7_FilterWritesWantedRows ==
    (tool = "filter" /\ pc \in {"done", "crashed"}) =>
        /\ pc = "done"
        /\ files[OutputPath] =
              (IF csv.sep # <<>> THEN <<SepOut(csv.sep)>> ELSE <<>>)
              \o <<HeaderOut(csv.header)>> \o WantedRowsOf(csv.lines)

\* C8: an input without a header row aborts the run, in the scan and in the
\* filter, and no file has been opened for writing when it does.
C8_AbortBeforeOutput ==
    /\ pc = "aborted" => (csv.header = <<>> /\ DOMAIN files = {})
    /\ (csv.header = <<>> /\ pc \notin {"start", "loaded"}) => pc = "aborted"

C8_Witness ==
    pc = "aborted" /\ tool = "filter" /\ csv.sep # <<>> /\ csv.lines # <<>>
        /\ ids_set # {}
====
